---------------------------- MODULE Spec2Model ----------------------------
(***************************************************************************)
(* Model of the build log of src/src/build_log.cc: the on-disk log as a    *)
(* sequence of bytes, the writer (OpenForWrite, RecordCommand, Close,      *)
(* Recompact) and the reader (Load with its line scanner memchrSSE2).      *)
(***************************************************************************)
EXTENDS Integers, Sequences, FiniteSets, TLC

(***************************************************************************)
(* Bytes.  A byte is a one-element token; files and strings are sequences  *)
(* of bytes.                                                               *)
(***************************************************************************)
NUL == "<NUL>"
TAB == "<TAB>"
LF  == "<LF>"
SP  == " "

Digits == <<"0", "1", "2", "3", "4", "5", "6", "7", "8", "9">>

IsSpace(c) == c \in {SP, TAB, LF}

DigitVal(c) == (CHOOSE i \in 1..10 : Digits[i] = c) - 1

IsDigit(c) == \E i \in 1..10 : Digits[i] = c

Min(a, b) == IF a < b THEN a ELSE b

\* A file: whether the path exists, and its bytes.
File(data) == [exists |-> TRUE, data |-> data]

\* The file of a path that does not exist.
ABSENT == [exists |-> FALSE, data |-> << >>]

(***************************************************************************)
(* printf("%d") / printf("%ld") of a small integer.                        *)
(***************************************************************************)
RECURSIVE FormatNat(_)
FormatNat(n) ==
  IF n < 10 THEN <<Digits[n + 1]>>
  ELSE FormatNat(n \div 10) \o <<Digits[(n % 10) + 1]>>

FormatInt(n) == IF n < 0 THEN <<"-">> \o FormatNat(-n) ELSE FormatNat(n)

(***************************************************************************)
(* kFileSignature "# ninja log v%d\n" printed with kCurrentVersion.        *)
(***************************************************************************)
kCurrentVersion == 4

SignaturePrefix ==
  <<"#", SP, "n", "i", "n", "j", "a", SP, "l", "o", "g", SP, "v">>

FileSignature(version) == SignaturePrefix \o FormatInt(version) \o <<LF>>


(***************************************************************************)
(* The C library scanners Load uses, on a memory image mem (a sequence of  *)
(* bytes; a pointer is an index into it, the null pointer is 0).           *)
(***************************************************************************)

\* strchr(start, c): the first c at or after start, before any NUL.
RECURSIVE Strchr(_, _, _)
Strchr(mem, start, c) ==
  IF start > Len(mem) THEN 0
  ELSE IF mem[start] = c THEN start
  ELSE IF mem[start] = NUL THEN 0
  ELSE Strchr(mem, start + 1, c)

RECURSIVE SkipSpace(_, _)
SkipSpace(mem, i) ==
  IF i <= Len(mem) /\ IsSpace(mem[i]) THEN SkipSpace(mem, i + 1) ELSE i

RECURSIVE ParseDigits(_, _, _)
ParseDigits(mem, i, acc) ==
  IF i <= Len(mem) /\ IsDigit(mem[i])
  THEN ParseDigits(mem, i + 1, acc * 10 + DigitVal(mem[i]))
  ELSE acc

\* The index after an optional sign at i.
AfterSign(mem, i) ==
  IF i <= Len(mem) /\ mem[i] \in {"-", "+"} THEN i + 1 ELSE i

\* atoi / atol of the C string at start: blanks, a sign, digits.
Atoi(mem, start) ==
  LET i == SkipSpace(mem, start)
      j == AfterSign(mem, i)
      v == ParseDigits(mem, j, 0)
  IN IF i <= Len(mem) /\ mem[i] = "-" THEN -v ELSE v

\* sscanf(buf, kFileSignature, &log_version): a blank of the format matches
\* any run of blanks, every other character matches itself, and %d converts
\* blanks, a sign and at least one digit.  converted: the call returned > 0.
RECURSIVE ScanFormat(_, _, _)
ScanFormat(mem, i, k) ==
  IF k > Len(SignaturePrefix)
  THEN LET a == SkipSpace(mem, i)
           b == AfterSign(mem, a)
       IN IF b <= Len(mem) /\ IsDigit(mem[b])
          THEN [converted |-> TRUE, value |-> Atoi(mem, a)]
          ELSE [converted |-> FALSE, value |-> 0]
  ELSE IF SignaturePrefix[k] = SP
  THEN ScanFormat(mem, SkipSpace(mem, i), k + 1)
  ELSE IF i <= Len(mem) /\ mem[i] = SignaturePrefix[k]
  THEN ScanFormat(mem, i + 1, k + 1)
  ELSE [converted |-> FALSE, value |-> 0]

ScanSignature(mem) == ScanFormat(mem, 1, 1)

(***************************************************************************)
(* memchrSSE2(str, c, n).  The byte at index i of the buffer lives at      *)
(* address align + i - 1, where align is the buffer's address modulo 16.   *)
(***************************************************************************)

\* CountTrailingZeros of the hit mask of the 16 bytes at base, bits below
\* from masked out: the lowest k in from..15 with the byte base+k equal to
\* c, and 16 when there is none.
RECURSIVE LowestHit(_, _, _, _)
LowestHit(mem, base, from, c) ==
  IF from > 15 THEN 16
  ELSE IF base + from >= 1 /\ base + from <= Len(mem) /\ mem[base + from] = c
  THEN from
  ELSE LowestHit(mem, base, from + 1, c)

\* return r < start + n ? r : NULL
MemchrResult(r, start, n) == IF r < start + n THEN r ELSE 0

RECURSIVE MemchrAligned(_, _, _, _, _)
MemchrAligned(mem, str, c, start, n) ==
  LET k == LowestHit(mem, str, 0, c)
  IN IF k < 16 THEN MemchrResult(str + k, start, n)
     ELSE IF str > Len(mem) THEN 0
     ELSE MemchrAligned(mem, str + 16, c, start, n)

MemchrSSE2(mem, align, str, c, n) ==
  LET sentinel == [mem EXCEPT ![str + n] = c]
      n_unaligned == (align + str - 1) % 16
      k == LowestHit(sentinel, str - n_unaligned, n_unaligned, c)
  IN IF n_unaligned > 0 /\ k < 16
     THEN MemchrResult(str + k, str, n)
     ELSE MemchrAligned(sentinel,
                        IF n_unaligned > 0 THEN str + 16 - n_unaligned ELSE str,
                        c, str, n)

(***************************************************************************)
(* BuildLog::Load.  The in-memory log maps an output path to its entry.    *)
(***************************************************************************)

\* sizeof(buf): char buf[256 << 10]
BufSize == 262144

EmptyLog == << >>

LogEntry(output, command, start_time, end_time, restat_mtime) ==
  [output |-> output, command |-> command, start_time |-> start_time,
   end_time |-> end_time, restat_mtime |-> restat_mtime]

\* SetEntry with line 138 dropped: restat_mtime is not stored.
SetEntryNoRestat(log, path, command, start_time, end_time, restat_mtime) ==
  [k \in (DOMAIN log) \cup {path} |->
     IF k = path
     THEN LogEntry(IF path \in DOMAIN log THEN log[path].output ELSE path,
                   command, start_time, end_time, 0)
     ELSE log[k]]

\* log_.find(path), the insert of a new LogEntry when it is not there, and the
\* assignment of the entry's fields (done alike by Load and RecordCommand).
\* The output field is set only when the entry is created.
SetEntry(log, path, command, start_time, end_time, restat_mtime) ==
  [k \in (DOMAIN log) \cup {path} |->
     IF k = path
     THEN LogEntry(IF path \in DOMAIN log THEN log[path].output ELSE path,
                   command, start_time, end_time, restat_mtime)
     ELSE log[k]]

\* mem with data copied to index at (fread into the buffer, memmove).
Overwrite(mem, at, data) ==
  [i \in 1..Len(mem) |->
     IF i >= at /\ i < at + Len(data) THEN data[i - at + 1] ELSE mem[i]]

\* fread(buf + at - 1, 1, max, file) at file offset fpos.
Fread(s, file, at, max) ==
  LET n == Min(max, Len(file) - s.fpos)
  IN [s EXCEPT !.mem = Overwrite(s.mem, at, SubSeq(file, s.fpos + 1, s.fpos + n)),
               !.fpos = s.fpos + n,
               !.size_read = n]

\* Lines 182-194: find the end of the line, and when the buffer holds no
\* newline move the rest to the start of the buffer, fill up and look again.
GetLineEnd(s, file, align) ==
  LET found == MemchrSSE2(s.mem, align, s.line_start, LF,
                          s.buf_end - s.line_start)
      size_rest == s.buf_end - s.line_start
      moved == [s EXCEPT !.mem = Overwrite(s.mem, 1,
                  SubSeq(s.mem, s.line_start, s.line_start + size_rest - 1))]
      filled == Fread(moved, file, 1 + size_rest, BufSize - size_rest)
      again == [filled EXCEPT !.buf_end = 1 + size_rest + filled.size_read,
                              !.line_start = 1]
  IN IF found # 0 THEN [s EXCEPT !.line_end = found]
     ELSE [again EXCEPT !.line_end =
             MemchrSSE2(again.mem, align, 1, LF, again.buf_end - 1)]

\* Lines 203-256: split the line at line_start into its five fields and
\* store the entry.  Every "continue" returns the state reached so far; the
\* construction of a string of negative length throws std::length_error,
\* which nothing catches: status "crash".
ParseFields(s) ==
  LET sep == IF s.log_version >= 4 THEN TAB ELSE SP
      e1 == Strchr(s.mem, s.line_start, sep)
      m1 == [s.mem EXCEPT ![e1] = NUL]
      start_time == Atoi(m1, s.line_start)
      e2 == Strchr(m1, e1 + 1, sep)
      m2 == [m1 EXCEPT ![e2] = NUL]
      end_time == Atoi(m2, e1 + 1)
      e3 == Strchr(m2, e2 + 1, sep)
      m3 == [m2 EXCEPT ![e3] = NUL]
      restat_mtime == Atoi(m3, e2 + 1)
      e4 == Strchr(m3, e3 + 1, sep)
      output == SubSeq(m3, e3 + 1, e4 - 1)
      start == e4 + 1
      end == s.line_end
  IN IF e1 = 0 THEN s
     ELSE IF e2 = 0 THEN [s EXCEPT !.mem = m1]
     ELSE IF e3 = 0 THEN [s EXCEPT !.mem = m2]
     ELSE IF e4 = 0 \/ end = 0 THEN [s EXCEPT !.mem = m3]
     ELSE IF end < start THEN [s EXCEPT !.mem = m3, !.status = "crash"]
     ELSE [s EXCEPT !.mem = m3,
                    !.unique_entry_count =
                       IF output \in DOMAIN s.log THEN @ ELSE @ + 1,
                    !.total_entry_count = @ + 1,
                    !.log = SetEntry(s.log, output, SubSeq(m3, start, end - 1),
                                     start_time, end_time, restat_mtime)]

\* Lines 196-201: the first line(s) may be the signature.
ProcessLine(s) ==
  LET sig == ScanSignature(s.mem)
  IN IF s.log_version # 0 THEN ParseFields(s)
     ELSE IF sig.converted THEN [s EXCEPT !.log_version = sig.value]
     ELSE ParseFields([s EXCEPT !.log_version = 1])

\* The while (1) loop of lines 167-257.
RECURSIVE LoadLoop(_, _, _)
LoadLoop(s, file, align) ==
  LET refill == s.line_start >= s.buf_end \/ s.line_end = 0
      read == Fread(s, file, 1, BufSize)
      next == IF refill
              THEN [read EXCEPT !.line_start = 1, !.buf_end = 1 + read.size_read]
              ELSE [s EXCEPT !.line_start = s.line_end + 1]
      done == ProcessLine(GetLineEnd(next, file, align))
  IN IF refill /\ read.size_read = 0 THEN s
     ELSE IF done.status = "crash" THEN done
     ELSE LoadLoop(done, file, align)

kMinCompactionEntryCount == 100
kCompactionRatio == 3

\* DecideRecompaction with the ratio applied to the total instead of the
\* number of unique entries.
DecideRecompactionRatioSwapped(log_version, total_entry_count, unique_entry_count) ==
  \/ log_version < kCurrentVersion
  \/ /\ total_entry_count > kMinCompactionEntryCount
     /\ total_entry_count * kCompactionRatio > unique_entry_count

\* Lines 259-269: whether Load sets needs_recompaction_.
DecideRecompaction(log_version, total_entry_count, unique_entry_count) ==
  \/ log_version < kCurrentVersion
  \/ /\ total_entry_count > kMinCompactionEntryCount
     /\ total_entry_count > unique_entry_count * kCompactionRatio

\* The bytes of the stack behind the data Load has read are not initialised:
\* strchr, which does not stop at line_end or buf_end, reads them.  What it
\* finds there is any of these tails.
Tails == { <<NUL>>, <<TAB, TAB, TAB, TAB, NUL>>, <<SP, SP, SP, SP, NUL>> }

\* The addresses modulo 16 at which the buffer may lie: a local array of
\* 16 bytes or more is 16-byte aligned (x86-64 ABI; the file needs SSE).
BufAligns == {0}

\* Load of an opened file into a log, with the buffer at address align and
\* tail behind the data: the loop, then the decision, then return true.
LoadFile(file, log, needs_recompaction, align, tail) ==
  LET s0 == [mem |-> [i \in 1..Len(file) |-> NUL] \o tail,
             fpos |-> 0, size_read |-> 0,
             line_start |-> 1, line_end |-> 0, buf_end |-> 1,
             log_version |-> 0, unique_entry_count |-> 0,
             total_entry_count |-> 0, log |-> log, status |-> "ok"]
      s == LoadLoop(s0, file, align)
  IN [status |-> s.status,
      log |-> s.log,
      log_version |-> s.log_version,
      total |-> s.total_entry_count,
      unique |-> s.unique_entry_count,
      needs_recompaction |->
         \/ needs_recompaction
         \/ DecideRecompaction(s.log_version, s.total_entry_count,
                               s.unique_entry_count)]

\* Every result the build can produce for Load of this file.
LoadOutcomes(file, log, needs_recompaction) ==
  { LoadFile(file, log, needs_recompaction, align, tail) :
      align \in BufAligns, tail \in Tails }

(***************************************************************************)
(* The writer.                                                             *)
(***************************************************************************)

\* BuildLog::WriteEntry: fprintf(f, "%d\t%d\t%ld\t%s\t%s\n", ...)
WriteEntry(entry) ==
  FormatInt(entry.start_time) \o <<TAB>> \o FormatInt(entry.end_time) \o <<TAB>>
    \o FormatInt(entry.restat_mtime) \o <<TAB>> \o entry.output \o <<TAB>>
    \o entry.command \o <<LF>>

\* The loop of RecordCommand over the first n outputs of the edge: the log
\* it leaves in memory.
RECURSIVE RecordedLog(_, _, _, _, _, _, _)
RecordedLog(log, outputs, n, command, start_time, end_time, restat_mtime) ==
  IF n = 0 THEN log
  ELSE SetEntry(RecordedLog(log, outputs, n - 1, command, start_time, end_time,
                            restat_mtime),
                outputs[n], command, start_time, end_time, restat_mtime)

\* The same loop: the bytes it hands to WriteEntry, in order.
RECURSIVE RecordedBytes(_, _, _, _, _, _, _)
RecordedBytes(log, outputs, n, command, start_time, end_time, restat_mtime) ==
  IF n = 0 THEN << >>
  ELSE RecordedBytes(log, outputs, n - 1, command, start_time, end_time,
                     restat_mtime)
       \o WriteEntry(RecordedLog(log, outputs, n, command, start_time, end_time,
                                 restat_mtime)[outputs[n]])

\* The orders in which the loop of Recompact may visit the keys of log_ (the
\* container's iteration order).
Orders(keys) ==
  { order \in [1..Cardinality(keys) -> keys] :
      \A i, j \in 1..Cardinality(keys) : order[i] = order[j] => i = j }

RECURSIVE EntriesInOrder(_, _, _)
EntriesInOrder(log, order, n) ==
  IF n = 0 THEN << >>
  ELSE EntriesInOrder(log, order, n - 1) \o WriteEntry(log[order[n]])

(***************************************************************************)
(* The inputs of the model.                                                *)
(***************************************************************************)
pO    == <<"o">>
pP    == <<"p">>
pOut1 == <<"o", "u", "t", "1">>
cC        == <<"c">>
cCommand8 == <<"c", "o", "m", "m", "a", "n", "d", "8">>
cCmdArg   == <<"c", "m", "d", SP, "a", "r", "g">>
cPArg     == <<"p", SP, "a", "r", "g">>

\* The edges RecordCommand is called with: outputs_ and EvaluateCommand(true).
Edges ==
  { [outputs |-> <<pOut1>>, command |-> cCommand8],
    [outputs |-> <<pO, pP>>, command |-> cC] }

\* (start_time, end_time, restat_mtime) of a call.
Times == { <<1, 2, 3>>, <<10, 23, 0>> }

\* A record of the versions before 4, as the specification describes them:
\* start, end, output and command separated by blanks.
OldRecord(start_time, end_time, output, command) ==
  FormatInt(start_time) \o <<SP>> \o FormatInt(end_time) \o <<SP>> \o output
    \o <<SP>> \o command \o <<LF>>

Rec(start_time, end_time, restat_mtime, output, command) ==
  WriteEntry(LogEntry(output, command, start_time, end_time, restat_mtime))

Garbage == <<"g", "a", "r", "b", "a", "g", "e", LF>>

\* The files the path may hold when the program starts.
SignedLog      == FileSignature(4) \o Rec(1, 2, 3, pOut1, cCommand8)
TruncatedShort == FileSignature(4) \o Rec(1, 2, 3, pOut1, cCommand8)
                    \o Rec(4, 5, 6, pO, cC) \o <<"7", TAB, "8", TAB>>
MalformedFirst == FileSignature(4) \o Garbage \o Rec(1, 2, 3, pO, cCmdArg)
Version3Log    == FileSignature(3)
                    \o <<"1", SP, "2", SP, "3", SP>> \o pO \o <<SP>> \o cCmdArg
                    \o <<LF>>
Version2Log    == FileSignature(2) \o OldRecord(1, 2, pO, cPArg)

InitialFiles ==
  { ABSENT } \cup
  { File(data) : data \in { << >>, SignedLog, TruncatedShort, MalformedFirst,
                            Version3Log, Version2Log } }

\* How many RecordCommand, Load and OpenForWrite calls a run makes.
MaxRecordCalls == 2
MaxLoads == 1
MaxOpens == 2

\* How many records the record-level view of Load's loop accepts.
MaxScanRecords == 400

(***************************************************************************)
(* The state.                                                              *)
(*   disk      the files at path (log) and at path + ".recompact" (tmp)    *)
(*   log_, log_file_, needs_recompaction_   the fields of BuildLog         *)
(*   dry_run   config_->dry_run                                            *)
(*   pc        where OpenForWrite stands ("idle": no call in progress)     *)
(*   ret       what the last OpenForWrite returned                         *)
(*   nrecords, nloads, nopens   the calls of RecordCommand, Load and       *)
(*             OpenForWrite made so far                                    *)
(*   ld        the last Load: its file, what it found and what it left     *)
(*   h         history: the file the run started with, the file Recompact  *)
(*             started with, whether a RecordCommand found the file        *)
(*             closed, whether an OpenForWrite failed                      *)
(*   scan      Load's loop seen record by record (SpecScan)                *)
(***************************************************************************)
VARIABLES disk, log_, log_file_, needs_recompaction_, dry_run, pc, ret,
          nrecords, nloads, nopens, ld, h, scan, plan, dl

vars == <<disk, log_, log_file_, needs_recompaction_, dry_run, pc, ret,
          nrecords, nloads, nopens, ld, h, scan, plan, dl>>

NoLoad ==
  [called |-> FALSE, file |-> ABSENT, opened |-> FALSE, fresh |-> FALSE,
   status |-> "none", err |-> "", log_version |-> 0, total |-> 0, unique |-> 0,
   log_before |-> EmptyLog, needs_before |-> FALSE,
   log_after |-> EmptyLog, needs_after |-> FALSE]

ScanOff ==
  [log_version |-> 0, total |-> 0, unique |-> 0, needs |-> FALSE,
   done |-> TRUE]

\* The deplist helper has not been started.
HelperOff ==
  [on |-> FALSE, argv |-> << >>, rest |-> << >>, pc |-> "off",
   output_filename |-> "NULL", relative_to |-> "NULL",
   input_format |-> "INPUT_DEPFILE", quiet |-> FALSE, usage |-> FALSE,
   exit |-> "none", fatal |-> "", database |-> "NULL",
   deplist_to |-> "nowhere"]

\* The nodes of the graphs of the plan.
AllNodes == {"in1", "in2", "mid", "a", "b", "out"}

\* No graph, no plan.
PlanOff ==
  [on |-> FALSE, g |-> 0, mtime |-> [n \in AllNodes |-> 0], dirty |-> {},
   constructed |-> FALSE, targets |-> {}, want |-> {}, queue |-> << >>,
   running |-> {}, done |-> {}, failed |-> {}, found |-> << >>, last |-> -1,
   ntouch |-> 0, nadd |-> 0, nnone |-> 0]

\* BuildLog::BuildLog(), on a disk that holds one of the initial files.
\* dry_run is what config_ && config_->dry_run gives once the configuration
\* is set: the constructor leaves config_ NULL, which is dry_run = FALSE.
Init ==
  /\ \E f \in InitialFiles :
        /\ disk = [log |-> f, tmp |-> ABSENT]
        /\ h = [path0 |-> f, rc_old |-> ABSENT, unlogged |-> FALSE,
                failed |-> FALSE]
  /\ log_ = EmptyLog
  /\ log_file_ = "NULL"
  /\ needs_recompaction_ = FALSE
  /\ dry_run \in BOOLEAN
  /\ pc = "idle"
  /\ ret = "none"
  /\ nrecords = 0
  /\ nloads = 0
  /\ nopens = 0
  /\ ld = NoLoad
  /\ scan = ScanOff
  /\ plan = PlanOff
  /\ dl = HelperOff

\* No call has been made on the BuildLog yet.
Fresh ==
  /\ log_ = EmptyLog /\ log_file_ = "NULL" /\ ~needs_recompaction_
  /\ ret = "none" /\ nrecords = 0 /\ nloads = 0 /\ nopens = 0

\* fopen(path, "r") with the errno == ENOENT test dropped: a missing file
\* is an error like any other.
FopenForReadNoEnoent(file) ==
  IF file.exists THEN {"opened", "error"} ELSE {"error"}

\* Lines 153-159: fopen(path, "r") opens the file or fails; for a path that
\* does not exist it fails with ENOENT.
FopenForRead(file) ==
  IF file.exists THEN {"opened", "error"} ELSE {"ENOENT"}

\* BuildLog::Load(path, err)
Load ==
  /\ pc = "idle"
  /\ nloads < MaxLoads
  /\ nloads' = nloads + 1
  /\ \E opened \in FopenForRead(disk.log) :
       LET base == [NoLoad EXCEPT !.called = TRUE, !.file = disk.log,
                                  !.fresh = Fresh, !.log_before = log_,
                                  !.needs_before = needs_recompaction_,
                                  !.log_after = log_,
                                  !.needs_after = needs_recompaction_]
       IN CASE opened = "ENOENT" ->
                 \* return true
                 /\ ld' = [base EXCEPT !.status = "ok"]
                 /\ UNCHANGED <<log_, needs_recompaction_, pc>>
            [] opened = "error" ->
                 \* *err = strerror(errno); return false
                 /\ ld' = [base EXCEPT !.status = "fail", !.err = "strerror"]
                 /\ UNCHANGED <<log_, needs_recompaction_, pc>>
            [] opened = "opened" ->
                 \E r \in LoadOutcomes(disk.log.data, log_, needs_recompaction_) :
                   /\ ld' = [base EXCEPT !.opened = TRUE, !.status = r.status,
                                         !.log_version = r.log_version,
                                         !.total = r.total, !.unique = r.unique,
                                         !.log_after = r.log,
                                         !.needs_after = r.needs_recompaction]
                   /\ log_' = r.log
                   /\ needs_recompaction_' = r.needs_recompaction
                   /\ pc' = IF r.status = "crash" THEN "crashed" ELSE pc
  /\ UNCHANGED <<disk, log_file_, dry_run, ret, nrecords, nopens, h, scan, plan, dl>>

\* OpenForWrite with the dry-run test dropped.
IsDryRunIgnored == FALSE

\* Line 93: config_ && config_->dry_run
IsDryRun == dry_run

\* BuildLog::OpenForWrite(path, err), lines 92-100: the dry run, and Close
\* before Recompact.
OpenForWrite ==
  /\ pc = "idle"
  /\ nopens < MaxOpens
  /\ nopens' = nopens + 1
  /\ IF IsDryRun
     THEN /\ ret' = "true"
          /\ UNCHANGED <<pc, log_file_, h>>
     ELSE IF needs_recompaction_
     THEN /\ log_file_' = "NULL"
          /\ pc' = "rc_fopen"
          /\ ret' = "pending"
          /\ h' = [h EXCEPT !.rc_old = disk.log]
     ELSE /\ pc' = "ofw_fopen"
          /\ ret' = "pending"
          /\ UNCHANGED <<log_file_, h>>
  /\ UNCHANGED <<disk, log_, needs_recompaction_, dry_run, nrecords, nloads,
                 ld, scan, plan, dl>>

\* OpenForWrite returns false.
ReturnFalse ==
  /\ pc' = "idle"
  /\ ret' = "false"
  /\ h' = [h EXCEPT !.failed = TRUE]

\* Recompact, lines 292-297: fopen(temp_path, "wb")
RecompactOpen ==
  /\ pc = "rc_fopen"
  /\ \/ /\ disk' = [disk EXCEPT !.tmp = File(<< >>)]
        /\ pc' = "rc_sig"
        /\ UNCHANGED <<ret, h>>
     \/ /\ ReturnFalse
        /\ UNCHANGED disk
  /\ UNCHANGED <<log_, log_file_, needs_recompaction_, dry_run, nrecords,
                 nloads, nopens, ld, scan, plan, dl>>

\* Recompact, lines 299-303: the signature
RecompactSignature ==
  /\ pc = "rc_sig"
  /\ \/ /\ disk' = [disk EXCEPT !.tmp = File(FileSignature(kCurrentVersion))]
        /\ pc' = "rc_entries"
        /\ UNCHANGED <<ret, h>>
     \/ /\ ReturnFalse
        /\ UNCHANGED disk
  /\ UNCHANGED <<log_, log_file_, needs_recompaction_, dry_run, nrecords,
                 nloads, nopens, ld, scan, plan, dl>>

\* Recompact, lines 305-309: one WriteEntry per entry of log_, and fclose
RecompactEntries ==
  /\ pc = "rc_entries"
  /\ \E order \in Orders(DOMAIN log_) :
        disk' = [disk EXCEPT !.tmp =
                   File(disk.tmp.data
                        \o EntriesInOrder(log_, order, Cardinality(DOMAIN log_)))]
  /\ pc' = "rc_unlink"
  /\ UNCHANGED <<log_, log_file_, needs_recompaction_, dry_run, ret, nrecords,
                 nloads, nopens, ld, h, scan, plan, dl>>

\* Recompact, lines 310-313: unlink(path)
RecompactUnlink ==
  /\ pc = "rc_unlink"
  /\ \/ /\ disk.log.exists
        /\ disk' = [disk EXCEPT !.log = ABSENT]
        /\ pc' = "rc_rename"
        /\ UNCHANGED <<ret, h>>
     \/ /\ ReturnFalse
        /\ UNCHANGED disk
  /\ UNCHANGED <<log_, log_file_, needs_recompaction_, dry_run, nrecords,
                 nloads, nopens, ld, scan, plan, dl>>

\* Recompact, lines 315-320: rename(temp_path, path), and back in OpenForWrite
RecompactRename ==
  /\ pc = "rc_rename"
  /\ \/ /\ disk' = [log |-> disk.tmp, tmp |-> ABSENT]
        /\ pc' = "ofw_fopen"
        /\ UNCHANGED <<ret, h>>
     \/ /\ ReturnFalse
        /\ UNCHANGED disk
  /\ UNCHANGED <<log_, log_file_, needs_recompaction_, dry_run, nrecords,
                 nloads, nopens, ld, scan, plan, dl>>

\* OpenAppend with the ftell test dropped: the signature is written at
\* every open.
OpenAppendAlwaysSigns ==
  /\ pc = "ofw_fopen"
  /\ LET data == IF disk.log.exists THEN disk.log.data ELSE << >>
     IN \/ /\ log_file_' = "NULL"
           /\ ReturnFalse
           /\ UNCHANGED disk
        \/ /\ log_file_' = "open"
           /\ disk' = [disk EXCEPT !.log =
                         File(data \o FileSignature(kCurrentVersion))]
           /\ pc' = "idle"
           /\ ret' = "true"
           /\ UNCHANGED h
        \/ /\ Len(data) = 0
           /\ log_file_' = "open"
           /\ disk' = [disk EXCEPT !.log = File(<< >>)]
           /\ ReturnFalse
  /\ UNCHANGED <<log_, needs_recompaction_, dry_run, nrecords, nloads, nopens, ld, scan, plan, dl>>

\* OpenForWrite, lines 102-117: fopen(path, "ab"), which creates the file,
\* and the signature when ftell is 0.  A failed signature write returns
\* false and leaves log_file_ as fopen set it.
OpenAppend ==
  /\ pc = "ofw_fopen"
  /\ LET data == IF disk.log.exists THEN disk.log.data ELSE << >>
     IN \/ /\ log_file_' = "NULL"
           /\ ReturnFalse
           /\ UNCHANGED disk
        \/ /\ log_file_' = "open"
           /\ disk' = [disk EXCEPT !.log =
                         File(IF Len(data) = 0
                              THEN FileSignature(kCurrentVersion) ELSE data)]
           /\ pc' = "idle"
           /\ ret' = "true"
           /\ UNCHANGED h
        \/ /\ Len(data) = 0
           /\ log_file_' = "open"
           /\ disk' = [disk EXCEPT !.log = File(<< >>)]
           /\ ReturnFalse
  /\ UNCHANGED <<log_, needs_recompaction_, dry_run, nrecords, nloads, nopens, ld, scan, plan, dl>>

\* RecordCommand with the file position reset before it writes: the records
\* replace what the file held.
RecordCommandRewind(edge, start_time, end_time, restat_mtime) ==
  /\ pc = "idle"
  /\ nrecords < MaxRecordCalls
  /\ nrecords' = nrecords + 1
  /\ log_' = RecordedLog(log_, edge.outputs, Len(edge.outputs), edge.command,
                         start_time, end_time, restat_mtime)
  /\ disk' = IF log_file_ = "open" /\ disk.log.exists
             THEN [disk EXCEPT !.log =
                     File(RecordedBytes(log_, edge.outputs, Len(edge.outputs),
                                        edge.command, start_time, end_time,
                                        restat_mtime))]
             ELSE disk
  /\ h' = [h EXCEPT !.unlogged = @ \/ log_file_ = "NULL"]
  /\ UNCHANGED <<log_file_, needs_recompaction_, dry_run, pc, ret, nloads,
                 nopens, ld, scan, plan, dl>>

\* BuildLog::RecordCommand(edge, start_time, end_time, restat_mtime)
RecordCommand(edge, start_time, end_time, restat_mtime) ==
  /\ pc = "idle"
  /\ nrecords < MaxRecordCalls
  /\ nrecords' = nrecords + 1
  /\ log_' = RecordedLog(log_, edge.outputs, Len(edge.outputs), edge.command,
                         start_time, end_time, restat_mtime)
  /\ disk' = IF log_file_ = "open" /\ disk.log.exists
             THEN [disk EXCEPT !.log =
                     File(disk.log.data
                          \o RecordedBytes(log_, edge.outputs, Len(edge.outputs),
                                           edge.command, start_time, end_time,
                                           restat_mtime))]
             ELSE disk
  /\ h' = [h EXCEPT !.unlogged = @ \/ log_file_ = "NULL"]
  /\ UNCHANGED <<log_file_, needs_recompaction_, dry_run, pc, ret, nloads,
                 nopens, ld, scan, plan, dl>>

\* BuildLog::Close()
Close ==
  /\ pc = "idle"
  /\ log_file_' = "NULL"
  /\ UNCHANGED <<disk, log_, needs_recompaction_, dry_run, pc, ret, nrecords,
                 nloads, nopens, ld, h, scan, plan, dl>>

Next ==
  \/ Load
  \/ OpenForWrite
  \/ RecompactOpen
  \/ RecompactSignature
  \/ RecompactEntries
  \/ RecompactUnlink
  \/ RecompactRename
  \/ OpenAppend
  \/ \E edge \in Edges, t \in Times : RecordCommand(edge, t[1], t[2], t[3])
  \/ Close

Spec == Init /\ [][Next]_vars

(***************************************************************************)
(* Load's loop seen record by record, for logs too long to scan byte by    *)
(* byte: every accepted record counts in total_entry_count, and in         *)
(* unique_entry_count when log_ did not hold its output; the decision on   *)
(* needs_recompaction_ follows the loop.                                   *)
(***************************************************************************)

\* The versions a signature may give (0: the file is empty).
ScanVersions == {0, 3, kCurrentVersion, 5}

InitScan ==
  /\ disk = [log |-> ABSENT, tmp |-> ABSENT]
  /\ h = [path0 |-> ABSENT, rc_old |-> ABSENT, unlogged |-> FALSE,
          failed |-> FALSE]
  /\ log_ = EmptyLog
  /\ log_file_ = "NULL"
  /\ needs_recompaction_ = FALSE
  /\ dry_run = FALSE
  /\ pc = "idle"
  /\ ret = "none"
  /\ nrecords = 0
  /\ nloads = 0
  /\ nopens = 0
  /\ ld = NoLoad
  /\ plan = PlanOff
  /\ dl = HelperOff
  /\ \E v \in ScanVersions :
        scan = [log_version |-> v, total |-> 0, unique |-> 0, needs |-> FALSE,
                done |-> FALSE]

\* Lines 241-251: a record is accepted (no line is before log_version is
\* set, lines 197-201); new: log_.find(output) found nothing.
ScanAccept(new) ==
  /\ ~scan.done
  /\ scan.log_version # 0
  /\ scan.total < MaxScanRecords
  /\ new \/ scan.unique > 0
  /\ scan' = [scan EXCEPT !.total = @ + 1,
                          !.unique = IF new THEN @ + 1 ELSE @]
  /\ UNCHANGED <<disk, log_, log_file_, needs_recompaction_, dry_run, pc, ret,
                 nrecords, nloads, nopens, ld, h, plan, dl>>

\* Lines 259-273: the loop has ended.
ScanFinish ==
  /\ ~scan.done
  /\ scan' = [scan EXCEPT !.done = TRUE,
                          !.needs = DecideRecompaction(scan.log_version,
                                                       scan.total, scan.unique)]
  /\ UNCHANGED <<disk, log_, log_file_, needs_recompaction_, dry_run, pc, ret,
                 nrecords, nloads, nopens, ld, h, plan, dl>>

NextScan ==
  \/ \E new \in BOOLEAN : ScanAccept(new)
  \/ ScanFinish

SpecScan == InitScan /\ [][NextScan]_vars

Max(a, b) == IF a > b THEN a ELSE b

(***************************************************************************)
(* C4.  After Load of an existing file into a fresh BuildLog,              *)
(* needs_recompaction_ is true if and only if the log version is below 4   *)
(* or the number of accepted records exceeds max(100, 3 * unique); 400     *)
(* records over 50 outputs set the flag, 100 records over 100 outputs do   *)
(* not.                                                                    *)
(***************************************************************************)
C4_RecompactionThreshold ==
  scan.done =>
    /\ scan.needs <=> \/ scan.log_version < 4
                      \/ scan.total > Max(100, 3 * scan.unique)
    /\ scan.log_version = 4 /\ scan.total = 400 /\ scan.unique = 50
         => scan.needs
    /\ scan.log_version = 4 /\ scan.total = 100 /\ scan.unique = 100
         => ~scan.needs

C4_Witness ==
  /\ scan.done /\ scan.log_version = 4
  /\ scan.total = 400 /\ scan.unique = 50 /\ scan.needs

(***************************************************************************)
(* Reading a file as the claims describe it.                               *)
(***************************************************************************)
RECURSIVE IndexOf(_, _, _)
IndexOf(data, c, i) ==
  IF i > Len(data) THEN 0
  ELSE IF data[i] = c THEN i
  ELSE IndexOf(data, c, i + 1)

\* The lines of a file, each with its newline; the last may lack one.
RECURSIVE SplitLines(_)
SplitLines(data) ==
  LET i == IndexOf(data, LF, 1)
  IN IF data = << >> THEN << >>
     ELSE IF i = 0 THEN <<data>>
     ELSE <<SubSeq(data, 1, i)>> \o SplitLines(SubSeq(data, i + 1, Len(data)))

RECURSIVE Concat(_)
Concat(lines) ==
  IF lines = << >> THEN << >> ELSE Head(lines) \o Concat(Tail(lines))

CountOf(line, c) == Cardinality({ i \in 1..Len(line) : line[i] = c })

HasSignature(data) == ScanSignature(data \o <<NUL>>).converted

FieldSeparator(data) ==
  IF HasSignature(data) /\ ScanSignature(data \o <<NUL>>).value >= 4
  THEN TAB ELSE SP

\* A complete line that lacks the required fields.
IsMalformed(line, sep) ==
  /\ line[Len(line)] = LF
  /\ CountOf(line, sep) < 4

RECURSIVE DropMalformed(_, _)
DropMalformed(lines, sep) ==
  IF lines = << >> THEN << >>
  ELSE (IF IsMalformed(Head(lines), sep) THEN << >> ELSE <<Head(lines)>>)
       \o DropMalformed(Tail(lines), sep)

\* The file with its malformed lines removed (the signature line stays).
WithoutMalformed(data) ==
  LET lines == SplitLines(data)
      sep == FieldSeparator(data)
  IN IF HasSignature(data)
     THEN Head(lines) \o Concat(DropMalformed(Tail(lines), sep))
     ELSE Concat(DropMalformed(lines, sep))

HasMalformed(data) == WithoutMalformed(data) # data

\* The last record is not terminated by a newline.
HasPartialLast(data) == data # << >> /\ data[Len(data)] # LF

RECURSIVE LastIndexOf(_, _, _)
LastIndexOf(data, c, i) ==
  IF i = 0 THEN 0
  ELSE IF data[i] = c THEN i
  ELSE LastIndexOf(data, c, i - 1)

\* The file without its partial last line.
WithoutPartial(data) == SubSeq(data, 1, LastIndexOf(data, LF, Len(data)))

\* What a fresh BuildLog may hold after Load of these bytes.
FreshLoads(data) == LoadOutcomes(data, EmptyLog, FALSE)

\* The files Recompact may write for this log.
CompactedFiles(log) ==
  { File(FileSignature(kCurrentVersion)
         \o EntriesInOrder(log, order, Cardinality(DOMAIN log))) :
      order \in Orders(DOMAIN log) }

RecompactSteps == {"rc_fopen", "rc_sig", "rc_entries", "rc_unlink", "rc_rename"}

\* A fresh BuildLog has just loaded an existing file.
LoadedFresh == ld.called /\ ld.opened /\ ld.fresh

(***************************************************************************)
(* C1.  Log round trip: after OpenForWrite on an absent or empty path, any *)
(* RecordCommand calls and Close, a fresh BuildLog that Loads the path     *)
(* holds exactly the writer's in-memory map.                               *)
(***************************************************************************)
C1_LogRoundTrip ==
  ( /\ pc = "idle" /\ ~dry_run
    /\ h.path0 \in {ABSENT, File(<< >>)}
    /\ nloads = 0 /\ ret = "true" /\ ~h.failed /\ ~h.unlogged
    /\ log_file_ = "NULL" )
  => /\ disk.log.exists
     /\ \A r \in FreshLoads(disk.log.data) : r.status = "ok" /\ r.log = log_

(***************************************************************************)
(* C2.  Recompact replaces the log atomically: at every step of Recompact  *)
(* the file at path exists and is the complete old log or the complete     *)
(* compacted log.                                                          *)
(***************************************************************************)
C2_RecompactAtomic ==
  (pc \in RecompactSteps /\ h.rc_old.exists)
  => \/ disk.log = h.rc_old
     \/ disk.log \in CompactedFiles(log_)

(***************************************************************************)
(* C3.  Compaction equivalence: after a successful Recompact a fresh       *)
(* BuildLog that Loads the path holds exactly the map the compacting       *)
(* BuildLog holds, and the new file has exactly one record per key.        *)
(***************************************************************************)
C3_CompactionEquivalence ==
  (pc = "ofw_fopen" /\ needs_recompaction_)
  => /\ disk.log.exists
     /\ CountOf(disk.log.data, LF) = 1 + Cardinality(DOMAIN log_)
     /\ \A r \in FreshLoads(disk.log.data) : r.status = "ok" /\ r.log = log_

(***************************************************************************)
(* C5.  Dry run: with dry_run set OpenForWrite returns success and         *)
(* creates, opens, recompacts and writes no file, even when                *)
(* needs_recompaction_ is set, and RecordCommand changes only the map in   *)
(* memory.                                                                 *)
(***************************************************************************)
C5_DryRun ==
  [][ dry_run
      => /\ disk' = disk
         /\ log_file_' = "NULL"
         /\ pc' \notin RecompactSteps \cup {"ofw_fopen"}
         /\ nopens' # nopens => ret' = "true" /\ log_' = log_
         /\ nrecords' # nrecords =>
              \E edge \in Edges, t \in Times :
                log_' = RecordedLog(log_, edge.outputs, Len(edge.outputs),
                                    edge.command, t[1], t[2], t[3]) ]_vars

C5_Witness ==
  /\ dry_run /\ needs_recompaction_ /\ nopens > 0 /\ ret = "true"
  /\ nrecords = 2 /\ pO \in DOMAIN log_ /\ disk.log = h.path0

(***************************************************************************)
(* C6.  Malformed lines are skipped silently: Load of a file with lines    *)
(* that lack fields returns success and leaves the map that Load of the    *)
(* file without those lines leaves.                                        *)
(***************************************************************************)
C6_MalformedSkipped ==
  (LoadedFresh /\ HasMalformed(ld.file.data))
  => /\ ld.status = "ok"
     /\ \E r \in FreshLoads(WithoutMalformed(ld.file.data)) :
          r.status = "ok" /\ r.log = ld.log_after

(***************************************************************************)
(* C7.  Versions below 4 are accepted and normalised: Load of a log whose  *)
(* records are "start end output command", separated by blanks, gives each *)
(* record an entry keyed by its output with its full command, its times    *)
(* and a restat_mtime of 0.                                                *)
(***************************************************************************)
C7_OldVersionsNormalised ==
  \A v \in 1..3 : \A st \in 1..2 : \A et \in 1..2 :
    \A output \in {pO, pP} : \A command \in {cPArg, cCmdArg} :
      ( /\ LoadedFresh
        /\ ld.file.data = FileSignature(v) \o OldRecord(st, et, output, command) )
      => /\ ld.status = "ok"
         /\ output \in DOMAIN ld.log_after
         /\ ld.log_after[output] = LogEntry(output, command, st, et, 0)

(***************************************************************************)
(* C8.  After OpenForWrite has returned failure the BuildLog writes        *)
(* nothing more to disk, and every later RecordCommand still updates the   *)
(* entries of the edge's outputs in memory.                                *)
(***************************************************************************)
C8_NoWritesAfterFailure ==
  [][ (ret = "false" /\ ret' = "false")
      => /\ disk' = disk
         /\ nrecords' # nrecords =>
              \E edge \in Edges, t \in Times :
                log_' = RecordedLog(log_, edge.outputs, Len(edge.outputs),
                                    edge.command, t[1], t[2], t[3]) ]_vars

(***************************************************************************)
(* C9.  A truncated last line is discarded: Load of a file whose last      *)
(* record has no newline returns success and leaves the map that Load of   *)
(* the file without the partial line leaves.                               *)
(***************************************************************************)
C9_TruncatedDiscarded ==
  (LoadedFresh /\ HasPartialLast(ld.file.data))
  => /\ ld.status = "ok"
     /\ \E r \in FreshLoads(WithoutPartial(ld.file.data)) :
          r.status = "ok" /\ r.log = ld.log_after

(***************************************************************************)
(* C10.  Load of a path that does not exist returns success with no error  *)
(* message and changes neither the map nor needs_recompaction_; after such *)
(* a Load into a fresh BuildLog, OpenForWrite does not recompact and the   *)
(* file it creates begins with the version 4 signature.                    *)
(***************************************************************************)
C10_MissingFileFreshStart ==
  (ld.called /\ ~ld.file.exists)
  => /\ ld.status = "ok" /\ ld.err = ""
     /\ ld.log_after = ld.log_before
     /\ ld.needs_after = ld.needs_before
     /\ ld.fresh =>
          /\ ld.log_after = EmptyLog /\ ~ld.needs_after
          /\ ~needs_recompaction_
          /\ pc \notin RecompactSteps /\ ~disk.tmp.exists
          /\ (~dry_run /\ nopens = 1 /\ ret = "true") =>
               /\ disk.log.exists
               /\ Len(disk.log.data) >= Len(FileSignature(4))
               /\ SubSeq(disk.log.data, 1, Len(FileSignature(4)))
                    = FileSignature(4)

C10_Witness ==
  /\ ld.called /\ ~ld.file.exists /\ ld.fresh /\ ld.status = "ok"
  /\ ~dry_run /\ nopens = 1 /\ ret = "true" /\ pc = "idle"
  /\ disk.log.exists /\ nrecords > 0

(***************************************************************************)
(* Records on disk, read field by field.                                   *)
(***************************************************************************)
\* The fields of a line: what the separators sep delimit, the newline left
\* out.
RECURSIVE SplitBy(_, _)
SplitBy(line, sep) ==
  LET body == IF line # << >> /\ line[Len(line)] = LF
              THEN SubSeq(line, 1, Len(line) - 1) ELSE line
      i == IndexOf(body, sep, 1)
  IN IF i = 0 THEN <<body>>
     ELSE <<SubSeq(body, 1, i - 1)>> \o SplitBy(SubSeq(body, i + 1, Len(body)), sep)

\* A complete version 4 record: five fields and a newline.
IsRecord(line) ==
  /\ line # << >> /\ line[Len(line)] = LF
  /\ Len(SplitBy(line, TAB)) = 5

OutputOf(line) == SplitBy(line, TAB)[4]

IsPrefix(a, b) == Len(a) <= Len(b) /\ SubSeq(b, 1, Len(a)) = a

\* What a step has appended to the log file.
Appended(old, new) == SubSeq(new, Len(old) + 1, Len(new))

\* RecordCommand has just been called with the log file open.
RecordedOpen == nrecords' # nrecords /\ log_file_ = "open" /\ disk.log.exists

(***************************************************************************)
(* C11.  Append ordering: a RecordCommand made while the log file is open  *)
(* leaves every byte already on disk where it was and puts the records of  *)
(* its edge's outputs behind them, so the records of an earlier edge        *)
(* precede those of a later one.                                            *)
(***************************************************************************)
C11_AppendOrdering ==
  [][ RecordedOpen
      => /\ disk'.log.exists
         /\ IsPrefix(disk.log.data, disk'.log.data)
         /\ \E edge \in Edges :
              LET lines == SplitLines(Appended(disk.log.data, disk'.log.data))
              IN /\ Len(lines) = Len(edge.outputs)
                 /\ \A i \in 1..Len(lines) :
                      IsRecord(lines[i]) /\ OutputOf(lines[i]) = edge.outputs[i]
     ]_vars

\* Two edges recorded in turn: out1, then o and p.
C11_Witness ==
  /\ nrecords = 2 /\ log_file_ = "open" /\ ret = "true"
  /\ LET lines == SplitLines(disk.log.data)
     IN /\ Len(lines) = 4
        /\ OutputOf(lines[2]) = pOut1
        /\ OutputOf(lines[3]) = pO
        /\ OutputOf(lines[4]) = pP

(***************************************************************************)
(* C12.  The log in memory holds one entry per output path, stored under   *)
(* the path it names; a path that occurs several times in a loaded file,   *)
(* or that is recorded several times, has the values of its last           *)
(* occurrence.                                                             *)
(***************************************************************************)
\* A version 4 log of complete records only.
WellFormedV4(data) ==
  LET lines == SplitLines(data)
  IN /\ Len(lines) >= 1
     /\ lines[1] = FileSignature(4)
     /\ \A i \in 2..Len(lines) : IsRecord(lines[i])

\* The lines of data that are records of path.
RecordsOf(data, path) ==
  LET lines == SplitLines(data)
  IN { i \in 2..Len(lines) : OutputOf(lines[i]) = path }

\* The last of them.
LastRecordOf(data, path) ==
  LET lines == SplitLines(data)
  IN lines[CHOOSE i \in RecordsOf(data, path) :
             \A j \in RecordsOf(data, path) : j <= i]

\* The paths that occur several times in data.
RepeatedPaths(data) ==
  LET lines == SplitLines(data)
  IN { OutputOf(lines[i]) : i \in { k \in 2..Len(lines) :
         Cardinality(RecordsOf(data, OutputOf(lines[k]))) >= 2 } }

C12_KeyedByOutput == \A path \in DOMAIN log_ : log_[path].output = path

C12_LastOccurrenceOnDisk ==
  (ld.called /\ ld.opened /\ ld.status = "ok" /\ WellFormedV4(ld.file.data))
  => \A path \in RepeatedPaths(ld.file.data) :
       /\ path \in DOMAIN ld.log_after
       /\ WriteEntry(ld.log_after[path]) = LastRecordOf(ld.file.data, path)

C12_LastRecorded ==
  nrecords' # nrecords
  => \E edge \in Edges, t \in Times :
       \A i \in 1..Len(edge.outputs) :
         /\ edge.outputs[i] \in DOMAIN log_'
         /\ log_'[edge.outputs[i]] =
              LogEntry(edge.outputs[i], edge.command, t[1], t[2], t[3])

C12_OneEntryPerPath ==
  /\ [](C12_KeyedByOutput /\ C12_LastOccurrenceOnDisk)
  /\ [][C12_LastRecorded]_vars

(***************************************************************************)
(* The graph, the dirty flags and the plan.  Their implementation          *)
(* (ninja.h) is not among the sources; src/ninja_test.cc drives them, and  *)
(* the operations follow the specification's sections 3, 4.2 and 4.5 and   *)
(* its scenario "Basic cat".                                               *)
(***************************************************************************)
\* State::AddEdge and State::AddInOut: an edge is its inputs and its
\* outputs.  GBasic is the graph of the test.
EdgeOf(ins, outs) == [ins |-> ins, outs |-> outs]

GBasic == << EdgeOf({"in1", "in2"}, {"out"}) >>
GChain == << EdgeOf({"in1"}, {"mid"}), EdgeOf({"mid", "in2"}, {"out"}) >>
GJoin  == << EdgeOf({"in1"}, {"a"}), EdgeOf({"in2"}, {"b"}),
             EdgeOf({"a", "b"}, {"out"}) >>
GPair  == << EdgeOf({"in1"}, {"a", "b"}), EdgeOf({"a", "b", "in2"}, {"out"}) >>

Graphs == << GBasic, GChain, GJoin, GPair >>

\* How many Touch and AddTarget calls a run makes, and how many times
\* FindWork is called with nothing to return.
MaxTouches == 2
MaxAddTargets == 2
MaxFindNone == 2

Graph == Graphs[plan.g]
EdgeIds == 1..Len(Graph)

NodesOf(g) == UNION { g[e].ins \cup g[e].outs : e \in 1..Len(g) }

\* Node::in_edge: the edge that produces the node, 0 for a source.
InEdge(n) ==
  IF \E e \in EdgeIds : n \in Graph[e].outs
  THEN CHOOSE e \in EdgeIds : n \in Graph[e].outs
  ELSE 0

\* MarkDirty that marks every node of a consuming edge, its other inputs
\* too.
RECURSIVE MarkDirtyWholeEdge(_)
MarkDirtyWholeEdge(nodes) ==
  LET more == nodes \cup UNION { Graph[e].outs \cup Graph[e].ins :
                e \in { x \in EdgeIds : Graph[x].ins \cap nodes # {} } }
  IN IF more = nodes THEN nodes ELSE MarkDirtyWholeEdge(more)

\* Touch marks the node dirty, and with it the outputs of the edges that
\* consume a node marked dirty.
RECURSIVE MarkDirty(_)
MarkDirty(nodes) ==
  LET more == nodes \cup UNION { Graph[e].outs :
                e \in { x \in EdgeIds : Graph[x].ins \cap nodes # {} } }
  IN IF more = nodes THEN nodes ELSE MarkDirty(more)

\* An edge has work to do when one of its outputs is dirty.
EdgeDirty(e) == Graph[e].outs \cap plan.dirty # {}

\* InputReady that does not wait for the producing edge.
InputReadyAtOnce(n, done) == TRUE

\* An input is ready when it is a source, when its producing edge has no
\* work to do, or when that edge is done.
InputReady(n, done) ==
  \/ InEdge(n) = 0
  \/ ~EdgeDirty(InEdge(n))
  \/ InEdge(n) \in done

\* The ready count of the edge equals the number of its inputs.
AllInputsReady(e, done) == \A n \in Graph[e].ins : InputReady(n, done)

\* AddTarget: the edge of the target and, recursively, the edges of its
\* inputs, the dirty ones only.
RECURSIVE WantedFor(_)
WantedFor(n) ==
  IF InEdge(n) = 0 \/ ~EdgeDirty(InEdge(n)) THEN {}
  ELSE {InEdge(n)} \cup UNION { WantedFor(i) : i \in Graph[InEdge(n)].ins }

\* The queue with the edges of ready appended in the given order.
Enqueue(queue, order) == queue \o order

\* The wanted edges that have become ready and are not yet in the queue.
NewlyReady(want, done, queue, running) ==
  { e \in want : /\ e \notin done \cup running
                 /\ \A i \in 1..Len(queue) : queue[i] # e
                 /\ AllInputsReady(e, done) }

InitPlan ==
  /\ disk = [log |-> ABSENT, tmp |-> ABSENT]
  /\ h = [path0 |-> ABSENT, rc_old |-> ABSENT, unlogged |-> FALSE,
          failed |-> FALSE]
  /\ log_ = EmptyLog
  /\ log_file_ = "NULL"
  /\ needs_recompaction_ = FALSE
  /\ dry_run = FALSE
  /\ pc = "idle"
  /\ ret = "none"
  /\ nrecords = 0
  /\ nloads = 0
  /\ nopens = 0
  /\ ld = NoLoad
  /\ scan = ScanOff
  /\ dl = HelperOff
  /\ \E g \in 1..Len(Graphs) :
        plan = [PlanOff EXCEPT !.on = TRUE, !.g = g]

\* The plan leaves the build log alone.
PlanFrame ==
  UNCHANGED <<disk, log_, log_file_, needs_recompaction_, dry_run, pc, ret,
              nrecords, nloads, nopens, ld, h, scan, dl>>

\* state_.stat_cache()->GetFile(n)->Touch(1), before the plan is made.
Touch(n) ==
  /\ plan.on /\ ~plan.constructed
  /\ plan.ntouch < MaxTouches
  /\ n \in NodesOf(Graph)
  /\ plan' = [plan EXCEPT !.mtime[n] = 1,
                          !.dirty = MarkDirty(@ \cup {n}),
                          !.ntouch = @ + 1]
  /\ PlanFrame

\* Plan plan(&state_) on the first call, and plan.AddTarget(n).
AddTarget(n) ==
  /\ plan.on
  /\ plan.nadd < MaxAddTargets
  /\ n \in NodesOf(Graph)
  /\ LET want == plan.want \cup WantedFor(n)
         ready == NewlyReady(want, plan.done, plan.queue,
                             plan.running \cup plan.failed)
     IN \E order \in Orders(ready) :
          plan' = [plan EXCEPT !.constructed = TRUE,
                               !.targets = @ \cup {n},
                               !.want = want,
                               !.queue = Enqueue(@, order),
                               !.nadd = @ + 1]
  /\ PlanFrame

\* FindWork that returns the head of the queue and leaves it there.
FindWorkNoPop ==
  /\ plan.on /\ plan.constructed
  /\ Len(plan.found) < Len(Graph) + 1
  /\ IF plan.queue # << >>
     THEN plan' = [plan EXCEPT !.running = @ \cup {Head(plan.queue)},
                               !.found = Append(@, Head(plan.queue)),
                               !.last = Head(plan.queue)]
     ELSE /\ plan.nnone < MaxFindNone
          /\ plan' = [plan EXCEPT !.last = 0, !.nnone = @ + 1]
  /\ PlanFrame

\* plan.FindWork(): the head of the queue, or none (0).
FindWork ==
  /\ plan.on /\ plan.constructed
  /\ IF plan.queue # << >>
     THEN plan' = [plan EXCEPT !.queue = Tail(@),
                               !.running = @ \cup {Head(plan.queue)},
                               !.found = Append(@, Head(plan.queue)),
                               !.last = Head(plan.queue)]
     ELSE /\ plan.nnone < MaxFindNone
          /\ plan' = [plan EXCEPT !.last = 0, !.nnone = @ + 1]
  /\ PlanFrame

\* EdgeFinished that marks the edge done and releases no consumer.
EdgeFinishedNoRelease(e, success) ==
  /\ plan.on
  /\ e \in plan.running
  /\ plan' = IF success
             THEN [plan EXCEPT !.running = @ \ {e}, !.done = @ \cup {e}]
             ELSE [plan EXCEPT !.running = @ \ {e}, !.failed = @ \cup {e}]
  /\ PlanFrame

\* plan.EdgeFinished(e) for an edge FindWork has returned: with success the
\* edge is done and its consumers are released; a failed edge releases
\* none.
EdgeFinished(e, success) ==
  /\ plan.on
  /\ e \in plan.running
  /\ IF success
     THEN LET done == plan.done \cup {e}
              ready == NewlyReady(plan.want, done, plan.queue,
                                  plan.running \cup plan.failed)
          IN \E order \in Orders(ready) :
               plan' = [plan EXCEPT !.running = @ \ {e},
                                    !.done = done,
                                    !.queue = Enqueue(@, order)]
     ELSE plan' = [plan EXCEPT !.running = @ \ {e},
                               !.failed = @ \cup {e}]
  /\ PlanFrame

\* plan.more_to_do(): a wanted edge has not reached done.
more_to_do == plan.want \ plan.done # {}

NextPlan ==
  \/ \E n \in AllNodes : Touch(n)
  \/ \E n \in AllNodes : AddTarget(n)
  \/ FindWork
  \/ \E e \in EdgeIds, success \in BOOLEAN : EdgeFinished(e, success)

SpecPlan == InitPlan /\ [][NextPlan]_vars

\* No edge occurs twice in the sequence.
NoDuplicates(seq) ==
  \A i, j \in 1..Len(seq) : seq[i] = seq[j] => i = j

\* The dirty edges the targets require: the least set that holds the dirty
\* producer of every target and of every input of an edge in it.
RECURSIVE RequiredFrom(_, _)
RequiredFrom(nodes, edges) ==
  LET more == edges \cup { e \in EdgeIds : EdgeDirty(e)
                                           /\ Graph[e].outs \cap nodes # {} }
      reach == nodes \cup UNION { Graph[e].ins : e \in more }
  IN IF more = edges /\ reach = nodes THEN edges
     ELSE RequiredFrom(reach, more)

RequiredEdges == RequiredFrom(plan.targets, {})

(***************************************************************************)
(* C13.  No duplicate dispatch: FindWork returns each edge at most once;   *)
(* after AddTarget on the output of the single dirty edge of the test's    *)
(* graph the first FindWork returns the edge and every later one returns   *)
(* none, EdgeFinished called or not.                                       *)
(***************************************************************************)
C13_NoDuplicateDispatch ==
  plan.on =>
    /\ NoDuplicates(plan.found)
    /\ (plan.g = 1 /\ plan.targets = {"out"} /\ "out" \in plan.dirty)
       => /\ plan.found \in {<< >>, <<1>>}
          /\ plan.last # -1 => plan.found = <<1>>
          /\ plan.last \in {-1, 0, 1}

C13_Witness ==
  /\ plan.on /\ plan.g = 1 /\ plan.targets = {"out"}
  /\ plan.found = <<1>> /\ plan.last = 0
  /\ plan.running = {1} /\ plan.done = {}

(***************************************************************************)
(* C14.  Plan exhaustion: when the targets require K dirty edges and every *)
(* EdgeFinished reports success, FindWork returns an edge at most K times; *)
(* once it returns none with no edge running it has returned exactly K     *)
(* edges and more_to_do() is false.                                        *)
(***************************************************************************)
C14_PlanExhaustion ==
  (plan.on /\ plan.failed = {})
  => /\ Len(plan.found) <= Cardinality(RequiredEdges)
     /\ (plan.constructed /\ plan.queue = << >> /\ plan.running = {})
        => /\ Len(plan.found) = Cardinality(RequiredEdges)
           /\ ~more_to_do

C14_Witness ==
  /\ plan.on /\ plan.failed = {} /\ plan.last = 0 /\ plan.running = {}
  /\ Cardinality(RequiredEdges) = 3 /\ Len(plan.found) = 3 /\ ~more_to_do

(***************************************************************************)
(* C15.  Dirtiness after a touch: in the test's graph no node is dirty at  *)
(* first, and after in1 is touched with mtime 1, in1 and out are dirty and *)
(* in2 is not.  In every graph a touched node is dirty, the outputs of an  *)
(* edge that consumes a dirty node are dirty, and a node that was not      *)
(* touched and whose producer consumes no dirty node is clean.             *)
(***************************************************************************)
C15_DirtyAfterTouch ==
  plan.on =>
    /\ plan.ntouch = 0 => plan.dirty = {}
    /\ (plan.g = 1 /\ plan.mtime["in1"] = 1 /\ plan.mtime["in2"] = 0
        /\ plan.mtime["out"] = 0)
       => "in1" \in plan.dirty /\ "in2" \notin plan.dirty /\ "out" \in plan.dirty
    /\ \A n \in NodesOf(Graph) :
         /\ plan.mtime[n] = 1 => n \in plan.dirty
         /\ \A e \in EdgeIds :
              (n \in Graph[e].ins /\ n \in plan.dirty)
              => Graph[e].outs \subseteq plan.dirty
         /\ (plan.mtime[n] = 0
             /\ \A e \in EdgeIds :
                  n \in Graph[e].outs => Graph[e].ins \cap plan.dirty = {})
            => n \notin plan.dirty

C15_Witness ==
  /\ plan.on /\ plan.g = 1 /\ plan.ntouch = 1 /\ plan.mtime["in1"] = 1
  /\ plan.dirty = {"in1", "out"}

(***************************************************************************)
(* C16.  Dependency ordering: when FindWork returns an edge, every dirty   *)
(* edge that produces one of its inputs has finished before.               *)
(***************************************************************************)
C16_DependencyOrdering ==
  [][ (plan.on /\ Len(plan'.found) > Len(plan.found))
      => \A e \in EdgeIds :
           (EdgeDirty(e) /\ Graph[e].outs \cap Graph[plan'.last].ins # {})
           => e \in plan.done ]_vars

\* The consumer of the chain is returned after its producer has finished.
C16_Witness ==
  /\ plan.on /\ plan.g = 2 /\ plan.found = <<1, 2>> /\ 1 \in plan.done

(***************************************************************************)
(* The deplist helper, src/src/deplist_helper.cc: main from the options to *)
(* the place the dependency list is written to.                            *)
(***************************************************************************)
Option(opt, arg) == [opt |-> opt, arg |-> arg]

\* The options a command line is made of (the letters of the getopt string
\* of line 81 that the build for POSIX handles, and -d).
Options ==
  { Option("f", "gcc"), Option("f", "cl"), Option("f", "pch"),
    Option("o", "out.d"), Option("q", ""), Option("r", "base"),
    Option("d", "deps.db"), Option("h", "") }

\* How many options a command line has.
MaxOptions == 2

CommandLines == UNION { [1..n -> Options] : n \in 0..MaxOptions }

InitHelper ==
  /\ disk = [log |-> ABSENT, tmp |-> ABSENT]
  /\ h = [path0 |-> ABSENT, rc_old |-> ABSENT, unlogged |-> FALSE,
          failed |-> FALSE]
  /\ log_ = EmptyLog
  /\ log_file_ = "NULL"
  /\ needs_recompaction_ = FALSE
  /\ dry_run = FALSE
  /\ pc = "idle"
  /\ ret = "none"
  /\ nrecords = 0
  /\ nloads = 0
  /\ nopens = 0
  /\ ld = NoLoad
  /\ scan = ScanOff
  /\ plan = PlanOff
  /\ \E argv \in CommandLines :
        dl = [HelperOff EXCEPT !.on = TRUE, !.argv = argv, !.rest = argv,
                               !.pc = "getopt"]

HelperFrame ==
  UNCHANGED <<disk, log_, log_file_, needs_recompaction_, dry_run, pc, ret,
              nrecords, nloads, nopens, ld, h, scan, plan>>

\* Fatal(msg): the message, and the process exits.
Fatal(msg) == [dl EXCEPT !.pc = "exit", !.exit = "fatal", !.fatal = msg]

\* Lines 81-115: one turn of the getopt_long loop.  The switch has no case
\* for 'd': it takes the default, as 'h' does.
Getopt ==
  /\ dl.on /\ dl.pc = "getopt"
  /\ IF dl.rest = << >>
     THEN dl' = [dl EXCEPT !.pc = "input"]
     ELSE LET o == Head(dl.rest)
              next == [dl EXCEPT !.rest = Tail(@)]
          IN dl' =
               CASE o.opt = "f" ->
                      IF o.arg = "gcc"
                      THEN [next EXCEPT !.input_format = "INPUT_DEPFILE"]
                      ELSE IF o.arg = "cl"
                      THEN [next EXCEPT !.input_format = "INPUT_SHOW_INCLUDES"]
                      ELSE Fatal("unknown input format")
                 [] o.opt = "o" -> [next EXCEPT !.output_filename = o.arg]
                 [] o.opt = "q" -> [next EXCEPT !.quiet = TRUE]
                 [] o.opt = "r" -> [next EXCEPT !.relative_to = o.arg]
                 [] OTHER -> [next EXCEPT !.usage = TRUE, !.pc = "exit",
                                          !.exit = "0"]
  /\ HelperFrame

\* Lines 146-163: the input is read, or cannot be.
ReadInput ==
  /\ dl.on /\ dl.pc = "input"
  /\ \E ok \in BOOLEAN :
       dl' = IF ok THEN [dl EXCEPT !.pc = "parse"] ELSE Fatal("loading")
  /\ HelperFrame

\* Lines 165-197: the input is parsed in the chosen format; a depfile may
\* fail to parse.
ParseInput ==
  /\ dl.on /\ dl.pc = "parse"
  /\ \E ok \in BOOLEAN :
       dl' = IF ok \/ dl.input_format = "INPUT_SHOW_INCLUDES"
             THEN [dl EXCEPT !.pc = "output"]
             ELSE Fatal("parsing")
  /\ HelperFrame

\* Line 199.
db_filename == ".ninja_depdb"

\* Lines 199-221: the dependency list is written and main returns.  With
\* db_filename set at line 199 the branch of lines 205-219 is never taken.
WriteOutput ==
  /\ dl.on /\ dl.pc = "output"
  /\ dl' =
       IF db_filename # "NULL"
       THEN IF dl.output_filename = "NULL"
            THEN Fatal("-d requires -o")
            ELSE [dl EXCEPT !.database = db_filename, !.pc = "exit",
                            !.exit = "0"]
       ELSE [dl EXCEPT !.deplist_to = IF dl.output_filename # "NULL"
                                      THEN dl.output_filename ELSE "stdout",
                       !.pc = "exit", !.exit = "0"]
  /\ HelperFrame

NextHelper == Getopt \/ ReadInput \/ ParseInput \/ WriteOutput

SpecHelper == InitHelper /\ [][NextHelper]_vars

\* The command line holds the option.
Given(opt) == \E i \in 1..Len(dl.argv) : dl.argv[i].opt = opt

\* The value of the last -o of the command line.
LastOutput ==
  dl.argv[CHOOSE i \in 1..Len(dl.argv) :
            /\ dl.argv[i].opt = "o"
            /\ \A j \in i + 1..Len(dl.argv) : dl.argv[j].opt # "o"].arg

(***************************************************************************)
(* C17.  The deplist helper writes to the dependency database only when    *)
(* -d FILE is given: without -d a run that reaches the output writes the   *)
(* dependency list to the file named by -o, or to stdout when there is no  *)
(* -o, and does not fail with "-d requires -o".                            *)
(***************************************************************************)
C17_DatabaseOnlyWithD ==
  (dl.on /\ dl.pc = "exit")
  => /\ dl.database # "NULL" => Given("d")
     /\ (~Given("d") /\ ~dl.usage
         /\ dl.fatal \notin {"unknown input format", "loading", "parsing"})
        => /\ dl.fatal # "-d requires -o"
           /\ dl.exit = "0"
           /\ dl.deplist_to = IF Given("o") THEN LastOutput ELSE "stdout"

(***************************************************************************)
(* C18.  OpenForWrite recompacts first when needs_recompaction_ is set,    *)
(* then opens the file for append, then writes the signature only if the   *)
(* file is empty.  So after successful OpenForWrite, RecordCommand and     *)
(* Close calls, without dry run, on a path that was absent, empty or a     *)
(* signed log, the first line of the file is the version 4 signature and   *)
(* no other line is.                                                       *)
(***************************************************************************)
\* The path was absent, empty or a log that opens with the signature.
StartedSigned ==
  \/ ~h.path0.exists
  \/ h.path0.data = << >>
  \/ IsPrefix(FileSignature(4), h.path0.data)

SignatureLines(data) ==
  { i \in 1..Len(SplitLines(data)) : SplitLines(data)[i] = FileSignature(4) }

C18_SignedOnce ==
  (pc = "idle" /\ ~dry_run /\ StartedSigned /\ nopens > 0
   /\ ret = "true" /\ ~h.failed)
  => /\ disk.log.exists
     /\ SignatureLines(disk.log.data) = {1}

C18_StepOrder ==
  (~dry_run) =>
    /\ (pc = "idle" /\ nopens' # nopens)
       => pc' = IF needs_recompaction_ THEN "rc_fopen" ELSE "ofw_fopen"
    /\ (pc = "ofw_fopen" /\ ret' = "true")
       => /\ log_file_' = "open"
          /\ disk'.log.data =
               IF disk.log.exists /\ disk.log.data # << >>
               THEN disk.log.data ELSE FileSignature(4)

C18_OpenForWriteOrder == []C18_SignedOnce /\ [][C18_StepOrder]_vars

\* An empty log, loaded, recompacted at OpenForWrite and written to.
C18_Witness ==
  /\ pc = "idle" /\ ~dry_run /\ ret = "true" /\ ~h.failed
  /\ h.path0 = File(<< >>) /\ ld.called /\ needs_recompaction_
  /\ log_file_ = "open" /\ nrecords = 2
  /\ SignatureLines(disk.log.data) = {1}

(***************************************************************************)
(* C19.  Prior entries survive reopening: after Load, a successful         *)
(* OpenForWrite without dry run (recompacting or not) and any number of    *)
(* RecordCommand calls, the file on disk replayed with the last record of  *)
(* a path winning is the log in memory, at every step: every path with a   *)
(* record on disk has the entry its last record states, and there is no    *)
(* other entry.                                                            *)
(***************************************************************************)
\* The complete records among the lines of data.
RecordLines(data) ==
  LET lines == SplitLines(data)
  IN { i \in 1..Len(lines) : IsRecord(lines[i]) }

\* The paths they name.
PathsOnDisk(data) ==
  { OutputOf(SplitLines(data)[i]) : i \in RecordLines(data) }

\* The last record of path.
LastWriter(data, path) ==
  LET lines == SplitLines(data)
      mine  == { i \in RecordLines(data) : OutputOf(lines[i]) = path }
  IN lines[CHOOSE i \in mine : \A j \in mine : j <= i]

\* Replaying data, the last writer winning, gives log.
ReplaysTo(data, log) ==
  /\ PathsOnDisk(data) = DOMAIN log
  /\ \A path \in DOMAIN log : WriteEntry(log[path]) = LastWriter(data, path)

\* Load was the first call and returned true, every OpenForWrite since has
\* succeeded, and every RecordCommand found the file open.
LoadedThenOpened ==
  /\ pc = "idle" /\ ~dry_run
  /\ ld.called /\ ld.fresh /\ ld.status = "ok"
  /\ nopens > 0 /\ ret = "true" /\ ~h.failed /\ ~h.unlogged

C19_PriorEntriesSurvive ==
  LoadedThenOpened
  => /\ disk.log.exists
     /\ ReplaysTo(disk.log.data, log_)

(***************************************************************************)
(* C20.  RecordCommand(edge, start, end, restat_mtime) leaves every output *)
(* of the edge with an entry in memory that has the edge's command and     *)
(* the start, end and restat_mtime of the call, appends exactly one record *)
(* per output to the file when it is open, and leaves the entry of every   *)
(* path that is not an output of the edge as it was.                       *)
(***************************************************************************)
OutputsOf(edge) == { edge.outputs[i] : i \in 1..Len(edge.outputs) }

C20_RecordCommandEffect ==
  nrecords' # nrecords
  => \E edge \in Edges, t \in Times :
       /\ DOMAIN log_' = DOMAIN log_ \cup OutputsOf(edge)
       /\ \A path \in OutputsOf(edge) :
            /\ log_'[path].command = edge.command
            /\ log_'[path].start_time = t[1]
            /\ log_'[path].end_time = t[2]
            /\ log_'[path].restat_mtime = t[3]
       /\ \A path \in DOMAIN log_ \ OutputsOf(edge) : log_'[path] = log_[path]
       /\ IF log_file_ = "open"
          THEN /\ disk.log.exists /\ disk'.log.exists
               /\ IsPrefix(disk.log.data, disk'.log.data)
               /\ LET lines == SplitLines(Appended(disk.log.data, disk'.log.data))
                  IN /\ Len(lines) = Len(edge.outputs)
                     /\ \A i \in 1..Len(lines) :
                          lines[i] = WriteEntry(log_'[edge.outputs[i]])
          ELSE disk' = disk

C20_RecordCommand == [][C20_RecordCommandEffect]_vars

\* The edge of o and p has been recorded, with the file open, into a log
\* that held an entry of out1, which is still the one that was loaded.
C20_Witness ==
  /\ nrecords = 1 /\ log_file_ = "open" /\ h.path0 = File(SignedLog)
  /\ ld.called /\ DOMAIN log_ = {pOut1, pO, pP}
  /\ log_[pOut1] = ld.log_after[pOut1]
  /\ log_[pO].command = cC /\ log_[pP].command = cC
  /\ Len(SplitLines(disk.log.data)) = 4

=============================================================================
